---- MODULE Spec2Model ----
(***************************************************************************)
(* Slack channel metrics exporter (slack_exporter.py).                     *)
(*                                                                         *)
(* SpecRequest : one call of _request_json against an arbitrary server.    *)
(* SpecPage    : the cursor pagination loops (conversations.members,       *)
(*               users.list, conversations.history).                       *)
(* SpecHistory : compute_channel_stats_from_history consuming the messages *)
(*               yielded by iter_conversation_history.                     *)
(* SpecRole    : one call of get_user_role.                                *)
(* SpecExport  : one call of export_channel_metrics_rows.                  *)
(***************************************************************************)
EXTENDS Integers, Sequences, FiniteSets, TLC

VARIABLES
    \* ---- _request_json ----
    pc,          \* "idle" | "loop" | "done": position of the call
    endpoint,    \* argument
    token,       \* argument, as passed by the caller (a sequence of text parts)
    params,      \* argument
    url,         \* local, line 91
    headers,     \* local, line 93
    attempt,     \* loop variable of `for attempt in range(max_retries)`
    sent,        \* requests.get calls made so far, in order
    resp,        \* the response to the latest request
    sleeps,      \* time.sleep calls made so far, in order
    outcome,     \* how the call ended: return value or exception
    onlyRateLimited, \* history: every response so far was a 429 or in-body `ratelimited`
    \* ---- pagination loops ----
    loop,        \* which loop runs: the endpoint it pages through
    ppc,         \* "idle" | "run" | "returned" | "raised"
    cursor,      \* local `cursor`
    pageReqs,    \* the params of every page request sent, in order
    pageResps,   \* the pages received, in order
    members,     \* get_channel_member_ids: local list `members`
    unique_members, \* get_channel_member_ids: the returned list
    user_map,    \* build_user_email_map: local dict `user_map`
    visited,     \* build_user_email_map: the users its for loop has iterated
    yielded,     \* iter_conversation_history: the messages yielded so far
    \* ---- history scan ----
    hpc,         \* "idle" | "scan" | "returned" | "raised"
    scanned,     \* history: the messages the generator has yielded so far
    msg_counts,  \* local dict of compute_channel_stats_from_history
    join_ts,     \* local dict of compute_channel_stats_from_history
    prev_join_ts, \* history: join_ts before the latest scanned message
    \* ---- get_user_role ----
    rpc,         \* "call" | "returned"
    user_id,     \* argument
    channel_creator_id, \* argument; in the export, the local of that name
    user_info,   \* the outcome of the users.info request of the role check
    role,        \* the returned role
    \* ---- export_channel_metrics_rows ----
    epc,         \* position: "auth", "info", "creator", "members", "directory",
                 \* "history", "pass1", "pass2", "returned", "raised"
    include_bots,        \* argument
    include_deactivated, \* argument
    scan_history,        \* argument
    calls,       \* the calls made so far, in order, each with its outcome
    member_ids,  \* local
    hist_order,  \* history: the IDs of the history maps, in the order the scan met them
    ordered_ids, \* local
    missing_ids, \* local
    rows,        \* local
    pos,         \* index of the next element of the running for loop
    raised,      \* the exception that left the function, if any
    \* ---- the /export-channel-metrics handler (slack_slash_app.py) ----
    spc,         \* position of the handler
    command,     \* argument: the slash command payload
    channel_id,  \* local: the target channel
    events,      \* what the handler did so far, in order
    \* ---- rows_to_csv_bytes ----
    cpc,         \* position of the call
    csv_rows,    \* argument `rows`
    csv          \* the records written to buf so far

reqVars  == <<pc, endpoint, token, params, url, headers, attempt, sent, resp,
              sleeps, outcome, onlyRateLimited>>
pageVars == <<loop, ppc, cursor, pageReqs, pageResps, members, unique_members,
              user_map, visited, yielded>>
histVars == <<hpc, scanned, msg_counts, join_ts, prev_join_ts>>
roleVars == <<rpc, user_id, channel_creator_id, user_info, role>>
exportVars == <<epc, include_bots, include_deactivated, scan_history, calls,
                member_ids, hist_order, ordered_ids, missing_ids, rows, pos, raised>>
appVars  == <<spc, command, channel_id, events, cpc, csv_rows, csv>>
vars     == <<reqVars, pageVars, histVars, roleVars, exportVars, appVars>>

Max(a, b) == IF a >= b THEN a ELSE b

Last(s) == s[Len(s)]

\* A Python dict: a function from its keys. {} is the function with no key.
EmptyMap == [k \in {} |-> <<>>]

\* d[k] = v
Put(d, k, v) == [x \in DOMAIN d \cup {k} |-> IF x = k THEN v ELSE d[x]]

\* Optional JSON fields are sequences: <<>> for an absent key (or null),
\* <<v>> for the value v. Python truthiness of such a text field:
Truthy(f) == f # <<>> /\ f # <<"">>

(***************************************************************************)
(* _request_json                                                           *)
(***************************************************************************)

SLACK_API_BASE == "https://slack.com/api"

\* max_retries: int = 8
max_retries == 8

\* The prefixes clean_token strips, in the order of its for loop.
TokenPrefixes == <<"OAuth token:", "OAuth Token:", "Token:", "Bearer ">>

\* clean_token: one pass over the prefixes, each stripped if the token starts
\* with it at that moment. A token is a sequence of text parts.
RECURSIVE CleanFrom(_, _)
CleanFrom(tok, i) ==
    IF i > Len(TokenPrefixes) THEN tok
    ELSE IF tok # <<>> /\ Head(tok) = TokenPrefixes[i]
         THEN CleanFrom(Tail(tok), i + 1)
         ELSE CleanFrom(tok, i + 1)

clean_token(tok) == CleanFrom(tok, 1)

\* What the callers pass.
Endpoints == {"auth.test", "users.info"}
Tokens    == {<<"xoxb-1">>, <<"Bearer ", "xoxb-1">>}
ParamSets == {<<>>, <<"user", "U1">>}

\* Retry-After header of a 429: absent, or a number of seconds as text.
RetryAfterHeaders == {<<>>, <<"0">>, <<"3">>}

\* int(text) on the header texts the server sends.
ParseInt(text) ==
    CASE text = "0" -> 0
      [] text = "1" -> 1
      [] text = "3" -> 3

\* Error codes of a 200 body with ok false; <<>> is a body without `error`.
RetryableErrors == {"internal_error", "ratelimited"}
ErrorFields == {<<"internal_error">>, <<"ratelimited">>, <<"channel_not_found">>,
                <<"invalid_auth">>, <<>>}

\* Exceptions of requests.get / raise_for_status.
TransportErrors == {"ConnectionError", "Timeout", "HTTPError"}

NoResp == [kind |-> "none", retry_after |-> <<>>, ok |-> FALSE, error |-> <<>>, exc |-> ""]

Resp429(h)       == [NoResp EXCEPT !.kind = "http429", !.retry_after = h]
RespOk           == [NoResp EXCEPT !.kind = "body", !.ok = TRUE]
RespError(e)     == [NoResp EXCEPT !.kind = "body", !.error = e]
RespTransport(x) == [NoResp EXCEPT !.kind = "transport", !.exc = x]

NoOutcome == [kind |-> "none", exc |-> "", msg |-> <<>>, data |-> NoResp]

\* raise SlackApiError(f"{endpoint} failed: {err}")
ApiErrorMessage(ep, err) == <<ep, " failed: ", err>>
ExhaustedMessage_Generic(ep) == <<ep, " failed: ", "ratelimited">>

\* raise SlackApiError(f"{endpoint} failed after retries (rate limited)")
ExhaustedMessage(ep) == <<ep, " failed after retries (rate limited)">>

Raise(exc, msg) == [NoOutcome EXCEPT !.kind = "raise", !.exc = exc, !.msg = msg]
Return(data)    == [NoOutcome EXCEPT !.kind = "return", !.data = data]

\* raise_for_status() / requests.get raising: the exception leaves the call as it is.
TransportOutcome_Wrapped(x) == Raise("SlackApiError", <<x>>)

TransportOutcome(x) == Raise(x, <<>>)

\* requests.get(url, headers=headers, params=params, timeout=30)
TheRequest == [url |-> url, headers |-> headers, params |-> params]

RetryAfterSleep_NoFloor(r) ==
    ParseInt(IF r.retry_after = <<>> THEN "1" ELSE r.retry_after[1])

\* retry_after = int(resp.headers.get("Retry-After", "1")); max(1, retry_after)
RetryAfterSleep(r) ==
    Max(1, ParseInt(IF r.retry_after = <<>> THEN "1" ELSE r.retry_after[1]))

BackoffSleep_Constant(a) == 1

\* time.sleep(1 + attempt)
BackoffSleep(a) == 1 + a

\* err = data.get("error", "unknown_error")
ErrorCode(r) == IF r.error = <<>> THEN "unknown_error" ELSE r.error[1]

ShouldRetry_AnyError(err, a) == a < max_retries - 1

\* err in {"internal_error", "ratelimited"} and attempt < max_retries - 1
ShouldRetry(err, a) == err \in RetryableErrors /\ a < max_retries - 1

RangeHasNext_OffByOne(a) == a + 1 <= max_retries

\* for attempt in range(max_retries): is there an iteration after attempt a
RangeHasNext(a) == a + 1 < max_retries

Slept(kind, dur) ==
    [kind |-> kind, dur |-> dur, attempt |-> attempt, nsent |-> Len(sent) + 1]

ReqInit ==
    /\ pc = "idle"
    /\ endpoint = ""
    /\ token = <<>>
    /\ params = <<>>
    /\ url = <<>>
    /\ headers = <<>>
    /\ attempt = 0
    /\ sent = <<>>
    /\ resp = NoResp
    /\ sleeps = <<>>
    /\ outcome = NoOutcome
    /\ onlyRateLimited = TRUE

\* Lines 91-93: the call is entered and its locals are computed once.
Call ==
    /\ pc = "idle"
    /\ \E ep \in Endpoints, tok \in Tokens, ps \in ParamSets :
          /\ endpoint' = ep
          /\ token' = clean_token(tok)
          /\ params' = ps
          /\ url' = <<SLACK_API_BASE, ep>>
          /\ headers' = <<"Authorization", "Bearer ", clean_token(tok)>>
    /\ pc' = "loop"
    /\ UNCHANGED <<attempt, sent, resp, sleeps, outcome, onlyRateLimited>>

\* `continue`: the next iteration of the for loop, or, the range used up,
\* line 116: raise SlackApiError(... failed after retries (rate limited)).
Continue ==
    IF RangeHasNext(attempt)
    THEN /\ attempt' = attempt + 1
         /\ UNCHANGED <<pc, outcome>>
    ELSE /\ pc' = "done"
         /\ outcome' = Raise("SlackApiError", ExhaustedMessage(endpoint))
         /\ UNCHANGED attempt

\* Lines 96-101: the request is answered by HTTP 429. After the sleep the loop
\* goes on; when the range is used up, line 116 raises.
Attempt429 ==
    /\ pc = "loop"
    /\ \E h \in RetryAfterHeaders :
          /\ resp' = Resp429(h)
          /\ sleeps' = Append(sleeps, Slept("retry_after", RetryAfterSleep(Resp429(h))))
    /\ sent' = Append(sent, TheRequest)
    /\ Continue
    /\ UNCHANGED <<endpoint, token, params, url, headers, onlyRateLimited>>

\* Lines 96-107: a 200 response whose body has ok true.
AttemptOk ==
    /\ pc = "loop"
    /\ sent' = Append(sent, TheRequest)
    /\ resp' = RespOk
    /\ pc' = "done"
    /\ outcome' = Return(RespOk)
    /\ UNCHANGED <<endpoint, token, params, url, headers, attempt, sleeps, onlyRateLimited>>

\* Lines 96-114: a 200 response whose body has ok false.
AttemptError ==
    /\ pc = "loop"
    /\ sent' = Append(sent, TheRequest)
    /\ \E e \in ErrorFields :
          /\ resp' = RespError(e)
          /\ onlyRateLimited' = (onlyRateLimited /\ e = <<"ratelimited">>)
          /\ IF ShouldRetry(ErrorCode(RespError(e)), attempt)
             THEN /\ sleeps' = Append(sleeps, Slept("backoff", BackoffSleep(attempt)))
                  /\ Continue
             ELSE /\ pc' = "done"
                  /\ outcome' = Raise("SlackApiError",
                                      ApiErrorMessage(endpoint, ErrorCode(RespError(e))))
                  /\ UNCHANGED <<attempt, sleeps>>
    /\ UNCHANGED <<endpoint, token, params, url, headers>>

\* Lines 96 and 103: requests.get raises (connection error, timeout), or
\* raise_for_status raises on a non-429 error status. Nothing catches it.
AttemptTransport ==
    /\ pc = "loop"
    /\ sent' = Append(sent, TheRequest)
    /\ \E x \in TransportErrors :
          /\ resp' = RespTransport(x)
          /\ outcome' = TransportOutcome(x)
    /\ pc' = "done"
    /\ onlyRateLimited' = FALSE
    /\ UNCHANGED <<endpoint, token, params, url, headers, attempt, sleeps>>

PageIdle ==
    /\ loop = ""
    /\ ppc = "idle"
    /\ cursor = <<>>
    /\ pageReqs = <<>>
    /\ pageResps = <<>>
    /\ members = <<>>
    /\ unique_members = <<>>
    /\ user_map = EmptyMap
    /\ visited = <<>>
    /\ yielded = <<>>

HistIdle ==
    /\ hpc = "idle"
    /\ scanned = <<>>
    /\ msg_counts = EmptyMap
    /\ join_ts = EmptyMap
    /\ prev_join_ts = EmptyMap

\* The outcome of a users.info request: the `user` object of an ok body with
\* the admin flags that are set in it, or the exception raised.
Info(kind, exc, user, flags) == [kind |-> kind, exc |-> exc, user |-> user, flags |-> flags]

NoInfo == Info("none", "", <<>>, {})

RoleIdle ==
    /\ rpc = "idle"
    /\ user_id = ""
    /\ channel_creator_id = <<>>
    /\ user_info = NoInfo
    /\ role = ""

ExportIdle ==
    /\ epc = "idle"
    /\ include_bots = FALSE
    /\ include_deactivated = FALSE
    /\ scan_history = FALSE
    /\ calls = <<>>
    /\ member_ids = <<>>
    /\ hist_order = <<>>
    /\ ordered_ids = <<>>
    /\ missing_ids = <<>>
    /\ rows = <<>>
    /\ pos = 1
    /\ raised = ""

\* A slash command payload; every field may be missing.
Command(channel_name, cid, uid, text) ==
    [channel_name |-> channel_name, channel_id |-> cid, user_id |-> uid, text |-> text]

AppIdle ==
    /\ spc = "idle"
    /\ command = Command(<<>>, <<>>, <<>>, <<>>)
    /\ channel_id = ""
    /\ events = <<>>
    /\ cpc = "idle"
    /\ csv_rows = <<>>
    /\ csv = <<>>

InitRequest == ReqInit /\ PageIdle /\ HistIdle /\ RoleIdle /\ ExportIdle /\ AppIdle

NextRequest ==
    \/ Call /\ UNCHANGED <<pageVars, histVars, roleVars, exportVars, appVars>>
    \/ Attempt429 /\ UNCHANGED <<pageVars, histVars, roleVars, exportVars, appVars>>
    \/ AttemptOk /\ UNCHANGED <<pageVars, histVars, roleVars, exportVars, appVars>>
    \/ AttemptError /\ UNCHANGED <<pageVars, histVars, roleVars, exportVars, appVars>>
    \/ AttemptTransport /\ UNCHANGED <<pageVars, histVars, roleVars, exportVars, appVars>>

SpecRequest == InitRequest /\ [][NextRequest]_vars

(***************************************************************************)
(* Claims about _request_json, checked under SpecRequest                   *)
(***************************************************************************)

IsRateLimit(r)      == r.kind = "http429"
IsBodyError(r)      == r.kind = "body" /\ ~r.ok
IsRetryableError(r) == IsBodyError(r) /\ r.error \in {<<"internal_error">>, <<"ratelimited">>}
IsOtherError(r)     == IsBodyError(r) /\ ~IsRetryableError(r)

\* The code of an ok-false body as the error message names it.
CodeOf(r) == IF r.error = <<>> THEN "unknown_error" ELSE r.error[1]

\* The number of seconds a Retry-After header asks for, 1 when it is absent.
HeaderSeconds(r) ==
    IF r.retry_after = <<>> THEN 1
    ELSE CASE r.retry_after = <<"0">> -> 0
           [] r.retry_after = <<"3">> -> 3

\* C1: one call issues at most max_retries (8) requests; every 429 and every
\* retried in-body error consumes exactly one attempt of the same budget (the
\* k-th sleep belongs to attempt k-1 and follows the k-th request, whatever
\* its kind); and a call answered by server responses only ends by returning
\* the ok body or by raising SlackApiError.
C1_BoundedAttempts ==
    /\ Len(sent) <= max_retries
    /\ attempt < max_retries
    /\ pc = "loop" => Len(sent) = attempt /\ Len(sleeps) = attempt
    /\ pc = "done" => Len(sent) = attempt + 1 /\ Len(sleeps) \in {attempt, attempt + 1}
    /\ \A k \in 1..Len(sleeps) : sleeps[k].attempt = k - 1 /\ sleeps[k].nsent = k
    /\ pc = "done" => outcome.kind \in {"return", "raise"}
    /\ (pc = "done" /\ resp.kind # "transport") =>
          \/ outcome.kind = "return" /\ resp.kind = "body" /\ resp.ok /\ outcome.data = resp
          \/ outcome.kind = "raise" /\ outcome.exc = "SlackApiError" /\ ~(resp.kind = "body" /\ resp.ok)

\* C1 witness: the budget was used up by a mix of 429s and retried in-body errors.
C1_Witness ==
    /\ pc = "done"
    /\ Len(sent) = max_retries
    /\ \E i, j \in 1..Len(sleeps) : sleeps[i].kind = "retry_after" /\ sleeps[j].kind = "backoff"

\* C2: a 429 is followed, before any further request, by a sleep of at least
\* the Retry-After seconds (1 when absent) and never less than 1; and every
\* request of the call is the same request: same url, parameters and bearer
\* header.
C2_RetryAfterHonoured ==
    /\ IsRateLimit(resp) =>
          /\ Len(sleeps) >= 1
          /\ Last(sleeps).kind = "retry_after"
          /\ Last(sleeps).nsent = Len(sent)
          /\ Last(sleeps).dur >= HeaderSeconds(resp)
          /\ Last(sleeps).dur >= 1
    /\ \A i \in 1..Len(sent) :
          /\ sent[i] = sent[1]
          /\ sent[i].url = <<SLACK_API_BASE, endpoint>>
          /\ sent[i].params = params
          /\ sent[i].headers = <<"Authorization", "Bearer ", <<"xoxb-1">>>>

\* C2 witness: a 429 with Retry-After 0 was slept on and the request was sent again.
C2_Witness ==
    /\ Len(sent) >= 2
    /\ sleeps[1].kind = "retry_after"
    /\ IsRateLimit(resp) /\ resp.retry_after = <<"0">>

\* C3: an ok-false body with a code other than internal_error / ratelimited
\* ends the call at once with SlackApiError naming the endpoint and the code,
\* with no sleep after that request; and when the last attempt of the budget is
\* answered by a 429 or a retryable error the call raises SlackApiError.
C3_FailFast ==
    /\ IsOtherError(resp) =>
          /\ pc = "done"
          /\ outcome = [kind |-> "raise", exc |-> "SlackApiError",
                        msg |-> <<endpoint, " failed: ", CodeOf(resp)>>, data |-> NoResp]
          /\ \A k \in 1..Len(sleeps) : sleeps[k].nsent < Len(sent)
    /\ (Len(sent) = max_retries /\ (IsRateLimit(resp) \/ IsRetryableError(resp))) =>
          /\ pc = "done"
          /\ outcome.kind = "raise"
          /\ outcome.exc = "SlackApiError"

\* C3 witness: a non-retryable code arrived after earlier attempts were retried.
C3_Witness ==
    /\ IsOtherError(resp)
    /\ Len(sent) = 4
    /\ pc = "done"

\* C4: a retryable in-body error on attempt a below the last one (a counted
\* from 0 over all attempts) is followed by a sleep of exactly 1 + a and the
\* loop goes on to another request; the backoff sleeps of a call are strictly
\* increasing.
C4_LinearBackoff ==
    /\ (IsRetryableError(resp) /\ Len(sent) < max_retries) =>
          /\ pc = "loop"
          /\ Len(sleeps) >= 1
          /\ Last(sleeps).kind = "backoff"
          /\ Last(sleeps).nsent = Len(sent)
          /\ Last(sleeps).dur = 1 + (Len(sent) - 1)
    /\ \A i, j \in 1..Len(sleeps) :
          (i < j /\ sleeps[i].kind = "backoff" /\ sleeps[j].kind = "backoff")
              => sleeps[i].dur < sleeps[j].dur

\* C4 witness: two backoff sleeps with a 429 between them.
C4_Witness ==
    /\ Len(sleeps) = 3
    /\ sleeps[1].kind = "backoff"
    /\ sleeps[2].kind = "retry_after"
    /\ sleeps[3].kind = "backoff"
    /\ pc = "loop"

\* The kind of a failure as a caller sees it: the exception class and the
\* fixed text of its message.
FailureKind(o) == <<o.exc, IF Len(o.msg) >= 2 THEN o.msg[2] ELSE "">>
GenericApiError == <<"SlackApiError", " failed: ">>

\* C5 as claimed: when the budget is used up with every attempt answered by a
\* 429 or by in-body ratelimited, the failure differs in kind from the generic
\* API error.
C5_Original ==
    (pc = "done" /\ Len(sent) = max_retries /\ onlyRateLimited /\ outcome.kind = "raise")
        => FailureKind(outcome) # GenericApiError

\* C5 amended: when the last attempt of the budget is answered by a 429 the
\* call raises SlackApiError "<endpoint> failed after retries (rate limited)",
\* the same exception class as the generic error with a text of its own; when
\* it is answered by a retryable in-body error the call raises the generic
\* SlackApiError "<endpoint> failed: <code>".
C5_Amended ==
    /\ (pc = "done" /\ Len(sent) = max_retries /\ IsRateLimit(resp)) =>
          outcome = [kind |-> "raise", exc |-> "SlackApiError",
                     msg |-> <<endpoint, " failed after retries (rate limited)">>,
                     data |-> NoResp]
    /\ (pc = "done" /\ Len(sent) = max_retries /\ IsRetryableError(resp)) =>
          /\ outcome = [kind |-> "raise", exc |-> "SlackApiError",
                        msg |-> <<endpoint, " failed: ", CodeOf(resp)>>, data |-> NoResp]
          /\ FailureKind(outcome) = GenericApiError
    /\ (outcome.kind = "raise" /\ outcome.exc = "SlackApiError"
          /\ FailureKind(outcome) # GenericApiError) =>
          Len(sent) = max_retries /\ IsRateLimit(resp)

\* C5 witness: the budget was used up under rate limiting only, the last
\* attempt answered by a 429.
C5_Witness ==
    /\ pc = "done"
    /\ Len(sent) = max_retries
    /\ onlyRateLimited
    /\ IsRateLimit(resp)
    /\ \E k \in 1..Len(sleeps) : sleeps[k].kind = "backoff"

\* C6 as claimed: a transport error ends the call only once the retry budget
\* is used up.
C6_Original ==
    (pc = "done" /\ resp.kind = "transport") => Len(sent) = max_retries

\* C6 amended: a transport error on any attempt ends the call at once: the
\* transport exception itself (not SlackApiError) leaves the call, with no
\* sleep and no further request after the failed one.
C6_Amended ==
    resp.kind = "transport" =>
        /\ pc = "done"
        /\ outcome = [kind |-> "raise", exc |-> resp.exc, msg |-> <<>>, data |-> NoResp]
        /\ outcome.exc \in {"ConnectionError", "Timeout", "HTTPError"}
        /\ \A k \in 1..Len(sleeps) : sleeps[k].nsent < Len(sent)

\* C6 witness: a transport error on the third attempt, budget left.
C6_Witness ==
    /\ resp.kind = "transport"
    /\ Len(sent) = 3
    /\ pc = "done"

(***************************************************************************)
(* Messages of conversations.history                                       *)
(***************************************************************************)

Msg(type, user, subtype, ts) == [type |-> type, user |-> user, subtype |-> subtype, ts |-> ts]

UserIds == {"U1", "U2", "U3"}

\* Timestamp texts. Two of them are different texts of the same number.
TsTexts == {"50.0", "100.5", "100.50", "200.0"}

\* float(ts), in tenths of a second.
Float(text) ==
    CASE text = "50.0"   -> 500
      [] text = "100.5"  -> 1005
      [] text = "100.50" -> 1005
      [] text = "200.0"  -> 2000

\* The message shapes the history endpoint delivers.
PlainMessages ==
    {Msg(<<"message">>, <<u>>, <<>>, <<"100.5">>) : u \in {"U1", "U2"}}
JoinMessages ==
    {Msg(<<"message">>, <<"U1">>, <<"channel_join">>, <<t>>) : t \in TsTexts}
        \cup {Msg(<<"message">>, <<"U2">>, <<"channel_join">>, <<"100.5">>),
              Msg(<<"message">>, <<"U1">>, <<"group_join">>, <<"200.0">>),
              Msg(<<"message">>, <<"U1">>, <<"channel_join">>, <<>>),
              Msg(<<"message">>, <<"U1">>, <<"channel_join">>, <<"">>),
              Msg(<<"other">>, <<"U2">>, <<"group_join">>, <<"50.0">>),
              Msg(<<"message">>, <<>>, <<"channel_join">>, <<"200.0">>)}
OtherMessages ==
    {Msg(<<"message">>, <<"U1">>, <<"channel_leave">>, <<"200.0">>),
     Msg(<<"message">>, <<"U1">>, <<"bot_message">>, <<"100.5">>),
     Msg(<<"message">>, <<"U2">>, <<"message_changed">>, <<"100.5">>),
     Msg(<<"message">>, <<>>, <<>>, <<"100.5">>),
     Msg(<<"message">>, <<"">>, <<>>, <<"100.5">>),
     Msg(<<"reaction_added">>, <<"U1">>, <<>>, <<"100.5">>),
     Msg(<<>>, <<"U2">>, <<>>, <<>>)}
Messages == PlainMessages \cup JoinMessages \cup OtherMessages

(***************************************************************************)
(* The pagination loops: get_channel_member_ids, build_user_email_map,     *)
(* iter_conversation_history                                               *)
(***************************************************************************)

\* The most pages one walk receives.
MaxPages == 3

Loops == {"conversations.members", "users.list", "conversations.history"}

\* response_metadata.next_cursor of a page: absent, empty, or a token.
NextCursorFields == {<<>>, <<"">>, <<"c1">>, <<"c2">>}

Page(items, next) == [items |-> items, next_cursor |-> next]

\* Users of users.list.
User(id, email, real_name, profile_real_name, display_name, name, deleted, is_bot) ==
    [id |-> id, email |-> email, real_name |-> real_name,
     profile_real_name |-> profile_real_name, display_name |-> display_name,
     name |-> name, deleted |-> deleted, is_bot |-> is_bot]

UserAnn  == User(<<"U1">>, <<"a@x.com">>, <<"Ann">>, <<"Ann P">>, <<"ann">>, <<"ann1">>, <<>>, <<>>)
UserAnn2 == User(<<"U1">>, <<"b@x.com">>, <<"Ann">>, <<"Ann P">>, <<"ann">>, <<"ann1">>, <<>>, <<>>)
UserBob  == User(<<"U2">>, <<>>, <<>>, <<"Bob P">>, <<"">>, <<"bob">>, <<TRUE>>, <<FALSE>>)
UserBot  == User(<<"U3">>, <<>>, <<"">>, <<>>, <<>>, <<>>, <<FALSE>>, <<TRUE>>)
UserNoId == User(<<>>, <<"n@x.com">>, <<"Nil">>, <<>>, <<>>, <<>>, <<>>, <<>>)

\* The item lists a page of each endpoint may carry.
ItemLists(l) ==
    CASE l = "conversations.members" ->
            {<<>>, <<"U1">>, <<"U1", "U2">>, <<"U2", "U1">>, <<"U1", "U1">>,
             <<"U2", "U3">>, <<"U3", "U1", "U3">>}
      [] l = "users.list" ->
            {<<>>, <<UserAnn>>, <<UserAnn, UserBob>>, <<UserNoId, UserBot>>, <<UserAnn2>>}
      [] l = "conversations.history" ->
            {<<>>,
             <<Msg(<<"message">>, <<"U1">>, <<>>, <<"100.5">>)>>,
             <<Msg(<<"message">>, <<"U1">>, <<>>, <<"100.5">>),
               Msg(<<"message">>, <<"U2">>, <<"channel_join">>, <<"50.0">>)>>,
             <<Msg(<<"message">>, <<"U2">>, <<"channel_join">>, <<"50.0">>),
               Msg(<<"message">>, <<"U1">>, <<>>, <<"100.5">>)>>}

PageParams_NoCursor(l, c) ==
    [endpoint |-> l,
     channel |-> IF l = "users.list" THEN <<>> ELSE <<"C1">>,
     limit |-> IF l = "conversations.members" THEN 1000 ELSE 200,
     cursor |-> <<>>]

\* params = {"channel": channel_id, "limit": ...}; if cursor: params["cursor"] = cursor
PageParams(l, c) ==
    [endpoint |-> l,
     channel |-> IF l = "users.list" THEN <<>> ELSE <<"C1">>,
     limit |-> IF l = "conversations.members" THEN 1000 ELSE 200,
     cursor |-> IF Truthy(c) THEN c ELSE <<>>]

NextCursor_KeepEmpty(page) == page.next_cursor

\* cursor = (data.get("response_metadata") or {}).get("next_cursor") or None
NextCursor(page) == IF Truthy(page.next_cursor) THEN page.next_cursor ELSE <<>>

\* a or b
Or(a, b) == IF Truthy(a) THEN a ELSE b

\* bool(u.get(key)) of a JSON boolean field
Bool(f) == f = <<TRUE>>

\* (email, real_name, display_name, deleted, is_bot) of a users.list / users.info user
UserTuple(u) ==
    [email |-> u.email,
     real_name |-> Or(u.real_name, u.profile_real_name),
     display_name |-> Or(u.display_name, u.name),
     deleted |-> Bool(u.deleted),
     is_bot |-> Bool(u.is_bot)]

\* for u in data.get("members", []): ... user_map[uid] = (...), users without id skipped
RECURSIVE AddUsers(_, _)
AddUsers(m, us) ==
    IF us = <<>> THEN m
    ELSE AddUsers(IF Truthy(Head(us).id) THEN Put(m, Head(us).id[1], UserTuple(Head(us))) ELSE m,
                  Tail(us))

Dedup_None(s) == s

\* seen = set(); unique_members = []; for uid in members: if uid not in seen: ...
RECURSIVE DedupFrom(_, _, _)
DedupFrom(s, seen, acc) ==
    IF s = <<>> THEN acc
    ELSE IF Head(s) \in seen
         THEN DedupFrom(Tail(s), seen, acc)
         ELSE DedupFrom(Tail(s), seen \cup {Head(s)}, Append(acc, Head(s)))

Dedup(s) == DedupFrom(s, {}, <<>>)

PageInit ==
    /\ loop \in Loops
    /\ ppc = "run"
    /\ cursor = <<>>
    /\ pageReqs = <<>>
    /\ pageResps = <<>>
    /\ members = <<>>
    /\ unique_members = <<>>
    /\ user_map = EmptyMap
    /\ visited = <<>>
    /\ yielded = <<>>

\* One iteration of the while loop: build params, request the page, take its
\* cursor, and leave the loop when there is none.
FetchPage(page) ==
    /\ ppc = "run"
    /\ Len(pageResps) < MaxPages
    /\ pageReqs' = Append(pageReqs, PageParams(loop, cursor))
    /\ pageResps' = Append(pageResps, page)
    /\ cursor' = NextCursor(page)
    /\ ppc' = IF NextCursor(page) = <<>> THEN "returned" ELSE "run"
    /\ UNCHANGED loop

\* get_channel_member_ids, lines 131-149: members.extend(page); after the last
\* page the list is deduplicated and returned.
MembersPage ==
    /\ loop = "conversations.members"
    /\ \E items \in ItemLists(loop), next \in NextCursorFields :
          /\ FetchPage(Page(items, next))
          /\ members' = members \o items
          /\ unique_members' =
                IF NextCursor(Page(items, next)) = <<>>
                THEN Dedup(members \o items) ELSE unique_members
    /\ UNCHANGED <<user_map, visited, yielded>>

\* build_user_email_map, lines 156-178.
UsersListPage ==
    /\ loop = "users.list"
    /\ \E items \in ItemLists(loop), next \in NextCursorFields :
          /\ FetchPage(Page(items, next))
          /\ user_map' = AddUsers(user_map, items)
          /\ visited' = visited \o items
    /\ UNCHANGED <<members, unique_members, yielded>>

\* iter_conversation_history, lines 201-218: every message of the page is yielded.
HistoryPage ==
    /\ loop = "conversations.history"
    /\ \E items \in ItemLists(loop), next \in NextCursorFields :
          /\ FetchPage(Page(items, next))
          /\ yielded' = yielded \o items
    /\ UNCHANGED <<members, unique_members, user_map, visited>>

\* _request_json raises on a page request: the exception leaves the loop and
\* the function; nothing is returned.
PageRaise ==
    /\ ppc = "run"
    /\ Len(pageResps) < MaxPages
    /\ pageReqs' = Append(pageReqs, PageParams(loop, cursor))
    /\ ppc' = "raised"
    /\ UNCHANGED <<loop, cursor, pageResps, members, unique_members, user_map, visited, yielded>>

ReqIdle == ReqInit

InitPage == ReqIdle /\ PageInit /\ HistIdle /\ RoleIdle /\ ExportIdle /\ AppIdle

NextPage ==
    \/ MembersPage /\ UNCHANGED <<reqVars, histVars, roleVars, exportVars, appVars>>
    \/ UsersListPage /\ UNCHANGED <<reqVars, histVars, roleVars, exportVars, appVars>>
    \/ HistoryPage /\ UNCHANGED <<reqVars, histVars, roleVars, exportVars, appVars>>
    \/ PageRaise /\ UNCHANGED <<reqVars, histVars, roleVars, exportVars, appVars>>

SpecPage == InitPage /\ [][NextPage]_vars

(***************************************************************************)
(* Claims about the pagination loops, checked under SpecPage               *)
(***************************************************************************)

RECURSIVE ConcatItems(_)
ConcatItems(pages) ==
    IF pages = <<>> THEN <<>> ELSE Head(pages).items \o ConcatItems(Tail(pages))

HasCursor(page) == page.next_cursor # <<>> /\ page.next_cursor # <<"">>

\* What the loop has handed on so far.
Handed ==
    CASE loop = "conversations.members" -> members
      [] loop = "users.list" -> visited
      [] loop = "conversations.history" -> yielded

\* C7: in each of the three loops the first request carries no cursor, every
\* later request carries the cursor of the page before it, unchanged; the loop
\* goes on after a page with a cursor and stops after the first page without
\* one (absent or empty); and what it hands on is the concatenation of the
\* pages' items, each once, in page order.
C7_Pagination ==
    /\ Len(pageReqs) >= 1 => pageReqs[1].cursor = <<>>
    /\ \A i \in 2..Len(pageReqs) :
          HasCursor(pageResps[i - 1]) /\ pageReqs[i].cursor = pageResps[i - 1].next_cursor
    /\ \A i \in 1..Len(pageReqs) : pageReqs[i].endpoint = loop
    /\ ppc \in {"run", "returned"} => Len(pageReqs) = Len(pageResps)
    /\ \A i \in 1..(Len(pageResps) - 1) : HasCursor(pageResps[i])
    /\ ppc = "returned" => Len(pageResps) >= 1 /\ ~HasCursor(Last(pageResps))
    /\ (ppc = "run" /\ Len(pageResps) >= 1) =>
          HasCursor(Last(pageResps)) /\ cursor = Last(pageResps).next_cursor
    /\ Handed = ConcatItems(pageResps)

\* C7 witness: a walk of three pages ended, the last page with an empty cursor.
C7_Witness ==
    /\ ppc = "returned"
    /\ Len(pageResps) = 3
    /\ Last(pageResps).next_cursor = <<"">>
    /\ Len(Handed) >= 4
    /\ loop = "conversations.history"

IdsOf(s) == {s[i] : i \in 1..Len(s)}

FirstIndex(s, x) == CHOOSE i \in 1..Len(s) : s[i] = x /\ \A j \in 1..(i - 1) : s[j] # x

\* C8: the list get_channel_member_ids returns holds every ID of the pages,
\* no other ID, none twice, in the order of their first occurrence in the
\* concatenated pages.
C8_MembersDeduplicated ==
    (loop = "conversations.members" /\ ppc = "returned") =>
        LET all == ConcatItems(pageResps) IN
        /\ IdsOf(unique_members) = IdsOf(all)
        /\ \A i, j \in 1..Len(unique_members) :
              i < j => /\ unique_members[i] # unique_members[j]
                       /\ FirstIndex(all, unique_members[i]) < FirstIndex(all, unique_members[j])

\* C8 witness: an ID repeated inside a page and across pages.
C8_Witness ==
    /\ loop = "conversations.members"
    /\ ppc = "returned"
    /\ Len(pageResps) = 2
    /\ pageResps[1].items = <<"U3", "U1", "U3">>
    /\ pageResps[2].items = <<"U2", "U1">>
    /\ unique_members = <<"U3", "U1", "U2">>

(***************************************************************************)
(* compute_channel_stats_from_history                                      *)
(***************************************************************************)

\* The most messages one scan is handed.
MaxMessages == 3

JOIN_SUBTYPES == {"channel_join", "group_join"}

\* d.get(k, default)
Get(d, k, default) == IF k \in DOMAIN d THEN d[k] ELSE default

_is_countable_user_message_AnySubtype(msg) ==
    /\ msg.type = <<"message">>
    /\ Truthy(msg.user)

\* type == "message", a user, and subtype is None
_is_countable_user_message(msg) ==
    /\ msg.type = <<"message">>
    /\ Truthy(msg.user)
    /\ msg.subtype = <<>>

IsNewerJoin_LastSeen(ts, prev) == TRUE

\* float(ts) > float(prev)
IsNewerJoin(ts, prev) == Float(ts) > Float(prev)

\* if _is_countable_user_message(msg): msg_counts[uid] = msg_counts.get(uid, 0) + 1
CountMessage(counts, msg) ==
    IF _is_countable_user_message(msg)
    THEN Put(counts, msg.user[1], Get(counts, msg.user[1], 0) + 1)
    ELSE counts

\* if subtype in JOIN_SUBTYPES and ts: prev = join_ts.get(uid);
\*     if prev is None or float(ts) > float(prev): join_ts[uid] = ts
MergeJoin(joins, msg) ==
    IF /\ msg.subtype # <<>>
       /\ msg.subtype[1] \in JOIN_SUBTYPES
       /\ Truthy(msg.ts)
    THEN IF msg.user[1] \notin DOMAIN joins \/ IsNewerJoin(msg.ts[1], joins[msg.user[1]])
         THEN Put(joins, msg.user[1], msg.ts[1])
         ELSE joins
    ELSE joins

HistInit ==
    /\ hpc = "scan"
    /\ scanned = <<>>
    /\ msg_counts = EmptyMap
    /\ join_ts = EmptyMap
    /\ prev_join_ts = EmptyMap

\* Lines 242-255: the body of the for loop, for the next message the
\* generator yields.
ScanMessage ==
    /\ hpc = "scan"
    /\ Len(scanned) < MaxMessages
    /\ \E msg \in Messages :
          /\ scanned' = Append(scanned, msg)
          /\ prev_join_ts' = join_ts
          /\ IF ~Truthy(msg.user)
             THEN UNCHANGED <<msg_counts, join_ts>>
             ELSE /\ msg_counts' = CountMessage(msg_counts, msg)
                  /\ join_ts' = MergeJoin(join_ts, msg)
    /\ UNCHANGED hpc

\* Line 257: the generator is exhausted, the two dicts are returned.
HistoryReturn ==
    /\ hpc = "scan"
    /\ hpc' = "returned"
    /\ UNCHANGED <<scanned, msg_counts, join_ts, prev_join_ts>>

\* A page request of the generator raises: the exception leaves the scan.
HistoryRaise ==
    /\ hpc = "scan"
    /\ hpc' = "raised"
    /\ UNCHANGED <<scanned, msg_counts, join_ts, prev_join_ts>>

InitHistory == ReqIdle /\ PageIdle /\ HistInit /\ RoleIdle /\ ExportIdle /\ AppIdle

NextHistory ==
    \/ ScanMessage /\ UNCHANGED <<reqVars, pageVars, roleVars, exportVars, appVars>>
    \/ HistoryReturn /\ UNCHANGED <<reqVars, pageVars, roleVars, exportVars, appVars>>
    \/ HistoryRaise /\ UNCHANGED <<reqVars, pageVars, roleVars, exportVars, appVars>>

SpecHistory == InitHistory /\ [][NextHistory]_vars

(***************************************************************************)
(* Claims about the history scan, checked under SpecHistory                *)
(***************************************************************************)

\* The scanned messages that count for u: type "message", user u, no subtype.
CountableFor(u) ==
    {i \in 1..Len(scanned) :
        /\ scanned[i].type = <<"message">>
        /\ scanned[i].user = <<u>>
        /\ scanned[i].subtype = <<>>}

\* The scanned join events of u: a join subtype and a timestamp.
JoinEventsOf(u) ==
    {i \in 1..Len(scanned) :
        /\ scanned[i].user = <<u>>
        /\ scanned[i].subtype \in {<<"channel_join">>, <<"group_join">>}
        /\ scanned[i].ts # <<>>
        /\ scanned[i].ts # <<"">>}

UserFlags == {"is_admin", "is_owner", "is_primary_owner", "is_restricted"}

\* What _request_json raises or lets through (see SpecRequest).
LookupErrors == {"SlackApiError", "ConnectionError", "Timeout", "HTTPError"}

\* channel.get("creator") of conversations.info: None, empty, or an ID.
CreatorFields == {<<>>, <<"">>, <<"U1">>, <<"U2">>, <<"U9">>}

\* user.get("is_admin") or user.get("is_owner") or user.get("is_primary_owner")
IsAdmin(info) ==
    \/ "is_admin" \in info.flags
    \/ "is_owner" \in info.flags
    \/ "is_primary_owner" \in info.flags

get_user_role_CreatorFirst(uid, creator, info) ==
    IF Truthy(creator) /\ <<uid>> = creator THEN "Channel Creator"
    ELSE IF info.kind = "return" /\ IsAdmin(info) THEN "Workspace Admin"
    ELSE "Member"

\* Lines 286-298. `except Exception: pass` makes a raised lookup count as a
\* lookup that found no flag.
get_user_role(uid, creator, info) ==
    IF info.kind = "return" /\ IsAdmin(info) THEN "Workspace Admin"
    ELSE IF Truthy(creator) /\ <<uid>> = creator THEN "Channel Creator"
    ELSE "Member"

RoleInit ==
    /\ rpc = "call"
    /\ user_id \in UserIds
    /\ channel_creator_id \in CreatorFields
    /\ user_info = NoInfo
    /\ role = ""

\* The users.info request returns an ok body, with or without a `user` object.
RoleLookupReturns ==
    /\ rpc = "call"
    /\ \E flags \in SUBSET UserFlags, u \in {<<>>, <<UserAnn>>} :
          /\ u = <<>> => flags = {}
          /\ user_info' = Info("return", "", u, flags)
          /\ role' = get_user_role(user_id, channel_creator_id, Info("return", "", u, flags))
    /\ rpc' = "returned"
    /\ UNCHANGED <<user_id, channel_creator_id>>

\* The users.info request raises.
RoleLookupRaises ==
    /\ rpc = "call"
    /\ \E exc \in LookupErrors :
          /\ user_info' = Info("raise", exc, <<>>, {})
          /\ role' = get_user_role(user_id, channel_creator_id, Info("raise", exc, <<>>, {}))
    /\ rpc' = "returned"
    /\ UNCHANGED <<user_id, channel_creator_id>>

InitRole == ReqIdle /\ PageIdle /\ HistIdle /\ RoleInit /\ ExportIdle /\ AppIdle

NextRole ==
    \/ RoleLookupReturns /\ UNCHANGED <<reqVars, pageVars, histVars, exportVars, appVars>>
    \/ RoleLookupRaises /\ UNCHANGED <<reqVars, pageVars, histVars, exportVars, appVars>>

SpecRole == InitRole /\ [][NextRole]_vars

(***************************************************************************)
(* Claims about get_user_role, checked under SpecRole                      *)
(***************************************************************************)

AdminFlagSet ==
    user_info.kind = "return" /\ user_info.flags \cap {"is_admin", "is_owner", "is_primary_owner"} # {}

IsCreator ==
    channel_creator_id # <<>> /\ channel_creator_id # <<"">> /\ channel_creator_id = <<user_id>>

\* C15: the role is "Workspace Admin" whenever the lookup succeeded and one of
\* is_admin, is_owner, is_primary_owner is set, the channel creator included;
\* otherwise "Channel Creator" exactly when a creator ID is known and equals
\* the user's ID; otherwise "Member".
C15_RolePrecedence ==
    rpc = "returned" =>
        /\ role \in {"Workspace Admin", "Channel Creator", "Member"}
        /\ role = "Workspace Admin" <=> AdminFlagSet
        /\ role = "Channel Creator" <=> (~AdminFlagSet /\ IsCreator)
        /\ role = "Member" <=> (~AdminFlagSet /\ ~IsCreator)

\* C15 witness: the channel creator is an owner and resolves to Workspace Admin.
C15_Witness ==
    /\ rpc = "returned"
    /\ IsCreator
    /\ user_info.flags = {"is_owner"}
    /\ role = "Workspace Admin"

(***************************************************************************)
(* export_channel_metrics_rows                                             *)
(***************************************************************************)

\* str(n) of the integers the rows carry.
Str(n) ==
    CASE n = 0 -> "0" [] n = 1 -> "1" [] n = 2 -> "2" [] n = 3 -> "3"
      [] n = 50 -> "50" [] n = 100 -> "100" [] n = 200 -> "200"

\* slack_ts_to_unix_seconds: "" for no timestamp, else str(int(float(ts)))
slack_ts_to_unix_seconds(ts) ==
    IF ~Truthy(ts) THEN "" ELSE Str(Float(ts[1]) \div 10)

\* value or ""
OrEmpty(f) == IF Truthy(f) THEN f[1] ELSE ""

\* d.get(k) as an optional value
GetOpt(d, k) == IF k \in DOMAIN d THEN <<d[k]>> ELSE <<>>

\* The row dict of lines 356-366 and 381-391.
Row(uid, info, r, counts, joins) ==
    [user_id |-> uid,
     email |-> OrEmpty(info.email),
     display_name |-> OrEmpty(info.display_name),
     real_name |-> OrEmpty(info.real_name),
     role |-> r,
     message_count |-> Str(Get(counts, uid, 0)),
     joined_at |-> slack_ts_to_unix_seconds(GetOpt(joins, uid))]

IsFiltered_BotsOnly(info, bots, deactivated) == info.is_bot /\ ~bots

\* if deleted and not include_deactivated: continue
\* if is_bot and not include_bots: continue
IsFiltered(info, bots, deactivated) ==
    \/ info.deleted /\ ~deactivated
    \/ info.is_bot /\ ~bots

\* One entry of the call log.
Called(fn, arg, res) == [fn |-> fn, arg |-> arg, res |-> res]

Ok == Info("return", "", <<>>, {})
Failed(exc) == Info("raise", exc, <<>>, {})

\* The failures of a required call: an API error or a transport error.
HardFailures == {"SlackApiError", "ConnectionError"}

\* What get_channel_member_ids may return (see SpecPage).
MemberLists == {<<>>, <<"U1">>, <<"U1", "U2">>, <<"U2", "U1">>}

\* What build_user_email_map may return (see SpecPage).
Directories ==
    {AddUsers(EmptyMap, us) : us \in {<<>>, <<UserAnn>>, <<UserAnn, UserBob>>, <<UserNoId, UserBot>>}}

\* The message streams the history scan may be handed.
HistoryRuns ==
    {<<>>,
     <<Msg(<<"message">>, <<"U1">>, <<>>, <<"100.5">>),
       Msg(<<"message">>, <<"U1">>, <<>>, <<"200.0">>),
       Msg(<<"message">>, <<"U1">>, <<>>, <<"50.0">>)>>,
     <<Msg(<<"message">>, <<"U3">>, <<>>, <<"50.0">>),
       Msg(<<"message">>, <<"U2">>, <<"channel_join">>, <<"100.5">>),
       Msg(<<"message">>, <<"U3">>, <<>>, <<"200.0">>)>>}

\* compute_channel_stats_from_history over a whole stream (see SpecHistory).
RECURSIVE ScanAll(_, _, _)
ScanAll(run, counts, joins) ==
    IF run = <<>> THEN [counts |-> counts, joins |-> joins]
    ELSE IF ~Truthy(Head(run).user)
         THEN ScanAll(Tail(run), counts, joins)
         ELSE ScanAll(Tail(run), CountMessage(counts, Head(run)), MergeJoin(joins, Head(run)))

\* The users of a stream in the order the scan first meets them.
RECURSIVE UsersOf(_)
UsersOf(run) ==
    IF run = <<>> THEN <<>>
    ELSE (IF Truthy(Head(run).user) THEN <<Head(run).user[1]>> ELSE <<>>) \o UsersOf(Tail(run))

RECURSIVE Keep(_, _)
Keep(s, set) ==
    IF s = <<>> THEN <<>>
    ELSE (IF Head(s) \in set THEN <<Head(s)>> ELSE <<>>) \o Keep(Tail(s), set)

Elems(s) == {s[i] : i \in 1..Len(s)}

\* The orders in which iterating a Python set of strings may deliver its
\* elements: any order (string hashes differ from process to process).
SetOrders(set) ==
    {o \in [1..Cardinality(set) -> set] : \A x \in set : \E i \in 1..Cardinality(set) : o[i] = x}

OrderedIds_NoSeenOut(mems, discovered) == mems \o discovered

\* Lines 327-337: member_ids first, then every other discovered ID.
OrderedIds(mems, discovered) == mems \o Keep(discovered, Elems(discovered) \ Elems(mems))

\* The outcomes of the users.info request of a role check.
RoleLookups ==
    {Info("return", "", <<UserAnn>>, {}), Info("return", "", <<UserAnn>>, {"is_admin"}),
     Failed("SlackApiError"), Failed("ConnectionError")}

UserNew     == User(<<"U2">>, <<"new@x.com">>, <<>>, <<"New P">>, <<>>, <<"new">>, <<FALSE>>, <<FALSE>>)
UserNewBot  == User(<<"U2">>, <<>>, <<>>, <<>>, <<>>, <<"bot">>, <<>>, <<TRUE>>)
UserGone    == User(<<"U2">>, <<>>, <<>>, <<>>, <<>>, <<"gone">>, <<TRUE>>, <<>>)
UserNone    == User(<<>>, <<>>, <<>>, <<>>, <<>>, <<>>, <<>>, <<>>)

\* The outcomes of the users.info request of fetch_user_info.
FallbackLookups ==
    {Info("return", "", <<UserNew>>, {}), Info("return", "", <<UserNewBot>>, {}),
     Info("return", "", <<UserGone>>, {}), Info("return", "", <<>>, {}),
     Failed("SlackApiError"), Failed("ConnectionError")}

\* fetch_user_info, lines 182-190: u = data.get("user") or {}
fetch_user_info(res) == UserTuple(IF res.user = <<>> THEN UserNone ELSE res.user[1])

RoleCheckPropagates_OnlyApiErrorCaught(info) == info.kind = "raise" /\ info.exc # "SlackApiError"

\* get_user_role, line 292: `except Exception: pass` lets no failure of the
\* lookup leave the role check.
RoleCheckPropagates(info) == FALSE

\* Line 371: `except SlackApiError` lets every other exception leave the export.
FallbackPropagates(res) == res.kind = "raise" /\ res.exc # "SlackApiError"

ExportInit ==
    /\ epc = "auth"
    /\ include_bots \in BOOLEAN
    /\ include_deactivated \in BOOLEAN
    /\ scan_history \in BOOLEAN
    /\ calls = <<>>
    /\ member_ids = <<>>
    /\ hist_order = <<>>
    /\ ordered_ids = <<>>
    /\ missing_ids = <<>>
    /\ rows = <<>>
    /\ pos = 1
    /\ raised = ""
    /\ channel_creator_id = <<>>
    /\ user_map = EmptyMap
    /\ msg_counts = EmptyMap
    /\ join_ts = EmptyMap

\* The parts of the other components' state the export does not use.
exportFrame ==
    <<reqVars, loop, ppc, cursor, pageReqs, pageResps, members, unique_members, visited,
      yielded, hpc, scanned, prev_join_ts, rpc, user_id, user_info, role,
      include_bots, include_deactivated, scan_history, appVars>>

Required_Continues(fn, res, next) ==
    /\ calls' = Append(calls, Called(fn, "", res))
    /\ epc' = next
    /\ UNCHANGED raised

\* A required call: it returns and the export goes on to `next`, or it raises
\* and the exception leaves the export.
Required(fn, res, next) ==
    /\ calls' = Append(calls, Called(fn, "", res))
    /\ IF res.kind = "raise"
       THEN epc' = "raised" /\ raised' = res.exc
       ELSE epc' = next /\ UNCHANGED raised

\* Line 314: auth_test(token)
AuthTest ==
    /\ epc = "auth"
    /\ \E res \in {Ok} \cup {Failed(x) : x \in HardFailures} : Required("auth_test", res, "info")
    /\ UNCHANGED <<exportFrame, channel_creator_id, member_ids, user_map, msg_counts, join_ts,
                   hist_order, ordered_ids, missing_ids, rows, pos>>

\* Line 315: channel_info_data = conversations_info(token, channel_id)
ChannelInfo ==
    /\ epc = "info"
    /\ \E res \in {Ok} \cup {Failed(x) : x \in HardFailures} :
          Required("conversations_info", res, "creator")
    /\ UNCHANGED <<exportFrame, channel_creator_id, member_ids, user_map, msg_counts, join_ts,
                   hist_order, ordered_ids, missing_ids, rows, pos>>

\* Line 316: channel_creator_id = get_channel_creator(token, channel_id); its
\* own conversations.info request may fail, and then it returns None.
GetChannelCreator ==
    /\ epc = "creator"
    /\ \/ \E c \in {<<>>, <<"U1">>} :
             /\ channel_creator_id' = c
             /\ calls' = Append(calls, Called("get_channel_creator", "", Ok))
       \/ \E x \in HardFailures :
             /\ channel_creator_id' = <<>>
             /\ calls' = Append(calls, Called("get_channel_creator", "", Failed(x)))
    /\ epc' = "members"
    /\ UNCHANGED <<exportFrame, member_ids, user_map, msg_counts, join_ts,
                   hist_order, ordered_ids, missing_ids, rows, pos, raised>>

\* Line 318: member_ids = get_channel_member_ids(token, channel_id)
GetMembers ==
    /\ epc = "members"
    /\ \/ /\ member_ids' \in MemberLists
          /\ Required("get_channel_member_ids", Ok, "directory")
       \/ /\ \E x \in HardFailures : Required("get_channel_member_ids", Failed(x), "directory")
          /\ UNCHANGED member_ids
    /\ UNCHANGED <<exportFrame, channel_creator_id, user_map, msg_counts, join_ts,
                   hist_order, ordered_ids, missing_ids, rows, pos>>

\* Line 319: user_map = build_user_email_map(token)
BuildDirectory ==
    /\ epc = "directory"
    /\ \/ /\ user_map' \in Directories
          /\ Required("build_user_email_map", Ok, "history")
       \/ /\ \E x \in HardFailures : Required("build_user_email_map", Failed(x), "history")
          /\ UNCHANGED user_map
    /\ UNCHANGED <<exportFrame, channel_creator_id, member_ids, msg_counts, join_ts,
                   hist_order, ordered_ids, missing_ids, rows, pos>>

\* Where the function stands when the loop over `ids` is at index p.
AtLoop(phase, ids, p, miss) ==
    IF p <= Len(ids) THEN phase
    ELSE IF phase = "pass1" /\ Len(miss) > 0 THEN "pass2"
    ELSE "returned"

OrderCandidates_WithDirectory(counts, joins) ==
    \E disc \in SetOrders(Elems(member_ids) \cup DOMAIN counts \cup DOMAIN joins
                              \cup DOMAIN user_map) :
        /\ ordered_ids' = OrderedIds(member_ids, disc)
        /\ epc' = AtLoop("pass1", OrderedIds(member_ids, disc), 1, <<>>)

\* Lines 327-340, after the history maps are known: discovered_ids is a set,
\* and `for uid in discovered_ids` walks it in one of its orders.
OrderCandidates(counts, joins) ==
    \E disc \in SetOrders(Elems(member_ids) \cup DOMAIN counts \cup DOMAIN joins) :
        /\ ordered_ids' = OrderedIds(member_ids, disc)
        /\ epc' = AtLoop("pass1", OrderedIds(member_ids, disc), 1, <<>>)

\* Lines 324-340 with scan_history: the scan returns the two maps, or raises.
ScanHistory ==
    /\ epc = "history"
    /\ scan_history
    /\ \/ \E run \in HistoryRuns :
             LET st == ScanAll(run, EmptyMap, EmptyMap) IN
             /\ msg_counts' = st.counts
             /\ join_ts' = st.joins
             /\ hist_order' = Keep(Dedup(UsersOf(run)), DOMAIN st.counts \cup DOMAIN st.joins)
             /\ calls' = Append(calls, Called("compute_channel_stats_from_history", "", Ok))
             /\ OrderCandidates(st.counts, st.joins)
             /\ UNCHANGED raised
       \/ /\ \E x \in HardFailures :
                Required("compute_channel_stats_from_history", Failed(x), "pass1")
          /\ UNCHANGED <<msg_counts, join_ts, hist_order, ordered_ids>>
    /\ UNCHANGED <<exportFrame, channel_creator_id, member_ids, user_map, missing_ids, rows, pos>>

\* Lines 321-340 without scan_history: both maps stay empty, no request.
SkipHistory ==
    /\ epc = "history"
    /\ ~scan_history
    /\ OrderCandidates(EmptyMap, EmptyMap)
    /\ UNCHANGED <<exportFrame, channel_creator_id, member_ids, user_map, msg_counts, join_ts,
                   hist_order, missing_ids, rows, pos, calls, raised>>

EmitRow_RoleFirst(uid, info, after, phase, ids, miss) ==
    \E lookup \in RoleLookups :
        /\ calls' = Append(after, Called("get_user_role", uid, lookup))
        /\ epc' = AtLoop(phase, ids, pos + 1, miss)
        /\ UNCHANGED raised
        /\ IF IsFiltered(info, include_bots, include_deactivated)
           THEN UNCHANGED rows
           ELSE rows' = Append(rows, Row(uid, info,
                                         get_user_role(uid, channel_creator_id, lookup),
                                         msg_counts, join_ts))

\* Lines 347-366 and 374-391: filters, role check, row. `after` is the call
\* log before the role check, `miss` the missing IDs after this step.
EmitRow(uid, info, after, phase, ids, miss) ==
    IF IsFiltered(info, include_bots, include_deactivated)
    THEN /\ calls' = after
         /\ epc' = AtLoop(phase, ids, pos + 1, miss)
         /\ UNCHANGED <<rows, raised>>
    ELSE \E lookup \in RoleLookups :
            /\ calls' = Append(after, Called("get_user_role", uid, lookup))
            /\ IF RoleCheckPropagates(lookup)
               THEN /\ epc' = "raised"
                    /\ raised' = lookup.exc
                    /\ UNCHANGED rows
               ELSE /\ rows' = Append(rows, Row(uid, info,
                                               get_user_role(uid, channel_creator_id, lookup),
                                               msg_counts, join_ts))
                    /\ epc' = AtLoop(phase, ids, pos + 1, miss)
                    /\ UNCHANGED raised

\* Lines 342-366: one iteration of `for uid in ordered_ids`.
Pass1Step ==
    /\ epc = "pass1"
    /\ LET uid == ordered_ids[pos] IN
       IF uid \notin DOMAIN user_map
       THEN /\ missing_ids' = Append(missing_ids, uid)
            /\ epc' = AtLoop("pass1", ordered_ids, pos + 1, Append(missing_ids, uid))
            /\ UNCHANGED <<rows, calls, raised>>
       ELSE /\ EmitRow(uid, user_map[uid], calls, "pass1", ordered_ids, missing_ids)
            /\ UNCHANGED missing_ids
    /\ pos' = IF pos + 1 <= Len(ordered_ids) THEN pos + 1 ELSE 1
    /\ UNCHANGED <<exportFrame, channel_creator_id, member_ids, user_map, msg_counts, join_ts,
                   hist_order, ordered_ids>>

\* Lines 368-391: one iteration of `for uid in missing_ids`.
Pass2Step ==
    /\ epc = "pass2"
    /\ LET uid == missing_ids[pos] IN
       \E res \in FallbackLookups :
          LET after == Append(calls, Called("fetch_user_info", uid, res)) IN
          IF res.kind = "raise"
          THEN /\ calls' = after
               /\ UNCHANGED rows
               /\ IF FallbackPropagates(res)
                  THEN epc' = "raised" /\ raised' = res.exc
                  ELSE epc' = AtLoop("pass2", missing_ids, pos + 1, missing_ids)
                       /\ UNCHANGED raised
          ELSE EmitRow(uid, fetch_user_info(res), after, "pass2", missing_ids, missing_ids)
    /\ pos' = pos + 1
    /\ UNCHANGED <<exportFrame, channel_creator_id, member_ids, user_map, msg_counts, join_ts,
                   hist_order, ordered_ids, missing_ids>>

InitExport ==
    /\ ReqIdle
    /\ loop = "" /\ ppc = "idle" /\ cursor = <<>> /\ pageReqs = <<>> /\ pageResps = <<>>
    /\ members = <<>> /\ unique_members = <<>> /\ visited = <<>> /\ yielded = <<>>
    /\ hpc = "idle" /\ scanned = <<>> /\ prev_join_ts = EmptyMap
    /\ rpc = "idle" /\ user_id = "" /\ user_info = NoInfo /\ role = ""
    /\ ExportInit
    /\ AppIdle

NextExport ==
    \/ AuthTest
    \/ ChannelInfo
    \/ GetChannelCreator
    \/ GetMembers
    \/ BuildDirectory
    \/ ScanHistory
    \/ SkipHistory
    \/ Pass1Step
    \/ Pass2Step

SpecExport == InitExport /\ [][NextExport]_vars

\* The candidate IDs: the members and the keys of the two history maps.
Candidates == Elems(member_ids) \cup DOMAIN msg_counts \cup DOMAIN join_ts

\* The rows of an ID.
RowsOf(uid) == {i \in 1..Len(rows) : rows[i].user_id = uid}

\* The identity an ID resolved to, if any: its directory entry, else what a
\* successful fallback lookup of it returned.
Resolved(uid) ==
    IF uid \in DOMAIN user_map THEN {user_map[uid]}
    ELSE {fetch_user_info(calls[i].res) :
             i \in {j \in 1..Len(calls) : /\ calls[j].fn = "fetch_user_info"
                                          /\ calls[j].arg = uid
                                          /\ calls[j].res.kind = "return"}}

Passes(info) == ~IsFiltered(info, include_bots, include_deactivated)

\* C11: every row's user_id is a member or a key of one of the history maps;
\* an ID known only from the directory never gets a row.
C11_RowsFromCandidates ==
    \A i \in 1..Len(rows) : rows[i].user_id \in Candidates

\* The export returned rows while the directory held an unfiltered identity
\* that is no candidate, and that identity has no row.
C11_Witness ==
    /\ epc = "returned"
    /\ Len(rows) > 0
    /\ \E uid \in DOMAIN user_map \ Candidates : Passes(user_map[uid]) /\ RowsOf(uid) = {}

\* C12: when the export returns, every candidate ID that resolved to an
\* identity (directory entry or successful fallback lookup) and passes both
\* filters has exactly one row; no ID ever has more than one row; a row's
\* message_count is the ID's history count, "0" without one, and its
\* joined_at is empty without a join timestamp.
C12_OneRowPerCandidate ==
    /\ \A uid \in UserIds : Cardinality(RowsOf(uid)) <= 1
    /\ \A i \in 1..Len(rows) :
          LET uid == rows[i].user_id IN
          /\ rows[i].message_count =
                IF uid \in DOMAIN msg_counts THEN Str(msg_counts[uid]) ELSE "0"
          /\ uid \notin DOMAIN join_ts => rows[i].joined_at = ""
    /\ epc = "returned" =>
          \A uid \in Candidates :
             (\E info \in Resolved(uid) : Passes(info)) => Cardinality(RowsOf(uid)) = 1

\* The membership is empty; U2 and U3, both known from history only, each got
\* their row: U2 without a message count, U3 without a join timestamp.
C12_Witness ==
    /\ epc = "returned"
    /\ member_ids = <<>>
    /\ \E i, j \in 1..Len(rows) :
          /\ rows[i].user_id = "U2" /\ rows[i].message_count = "0" /\ rows[i].joined_at = "100"
          /\ rows[j].user_id = "U3" /\ rows[j].message_count = "2" /\ rows[j].joined_at = ""

\* The user_id column of the rows.
RowIds == [i \in 1..Len(rows) |-> rows[i].user_id]

\* C13: the candidate IDs are the members in membership order, then the IDs
\* known from history only in the order the scan discovered them; the rows of
\* directory-resolved IDs keep that order, and the rows of the other IDs keep
\* it among themselves and come after them.
C13_Original ==
    epc \in {"pass1", "pass2", "returned"} =>
        /\ ordered_ids = member_ids \o Keep(hist_order, Elems(hist_order) \ Elems(member_ids))
        /\ epc = "returned" =>
              RowIds = Keep(ordered_ids, Elems(RowIds) \cap DOMAIN user_map)
                       \o Keep(ordered_ids, Elems(RowIds) \ DOMAIN user_map)

\* C14: no row belongs to a bot unless include_bots, none to a deactivated
\* identity unless include_deactivated, whether the identity came from the
\* directory or from the fallback lookup, whatever its history.
C14_FiltersApplied ==
    \A i \in 1..Len(rows) :
        \A info \in Resolved(rows[i].user_id) :
            /\ info.is_bot => include_bots
            /\ info.deleted => include_deactivated

\* The export returned; a bot of the directory with a message count and a
\* deactivated identity of the fallback lookup with a join timestamp were
\* both left out.
C14_Witness ==
    /\ epc = "returned"
    /\ \E uid \in Candidates \cap DOMAIN user_map :
          /\ user_map[uid].is_bot /\ ~include_bots
          /\ uid \in DOMAIN msg_counts
          /\ RowsOf(uid) = {}
    /\ \E uid \in Candidates \ DOMAIN user_map :
          /\ \E info \in Resolved(uid) : info.deleted /\ ~include_deactivated
          /\ uid \in DOMAIN join_ts
          /\ RowsOf(uid) = {}

\* The calls of the log that failed, by function.
FailedCalls(fns) == {i \in 1..Len(calls) : calls[i].fn \in fns /\ calls[i].res.kind = "raise"}

\* C16: a role check whose lookup failed (API error, transport error) treats
\* the identity as no administrator: its row is emitted with "Channel Creator"
\* if the ID is the creator's and "Member" otherwise, and the failed check
\* never aborts the export.
C16_FailedRoleCheck ==
    /\ \A i \in FailedCalls({"get_user_role"}) :
          \E j \in RowsOf(calls[i].arg) :
             rows[j].role = IF channel_creator_id = <<calls[i].arg>>
                            THEN "Channel Creator" ELSE "Member"
    /\ epc = "raised" => Last(calls).fn # "get_user_role"

\* The export returned although the role check of the channel's creator met a
\* transport error and the role check of another identity an API error.
C16_Witness ==
    /\ epc = "returned"
    /\ \E i, j \in FailedCalls({"get_user_role"}) :
          /\ calls[i].res.exc = "ConnectionError"
          /\ channel_creator_id = <<calls[i].arg>>
          /\ calls[j].res.exc = "SlackApiError"
          /\ channel_creator_id # <<calls[j].arg>>
          /\ \E k \in RowsOf(calls[i].arg) : rows[k].role = "Channel Creator"
          /\ \E k \in RowsOf(calls[j].arg) : rows[k].role = "Member"

\* C17: a failed conversations.info request, the credential being valid, does
\* not abort the export; it goes on with no creator ID and returns the rows.
C17_Original ==
    FailedCalls({"conversations_info", "get_channel_creator"}) # {} =>
        /\ epc # "raised" \/ Last(calls).fn \notin {"conversations_info", "get_channel_creator"}
        /\ epc \notin {"info", "creator"} => channel_creator_id = <<>>

\* C18: a failed fallback lookup, whatever the failure, only skips that ID:
\* the export is not aborted and the rows built so far are kept.
C18_Original ==
    FailedCalls({"fetch_user_info"}) # {} => epc # "raised"

\* C19: auth.test is the first call and is made once; when it fails nothing
\* else is called and no row exists; a failure of the membership fetch, the
\* directory build or the history scan leaves the export as that exception,
\* with no row.
C19_AuthFirst ==
    /\ epc # "auth" => Len(calls) >= 1 /\ calls[1].fn = "auth_test"
    /\ \A i \in 2..Len(calls) : calls[i].fn # "auth_test"
    /\ 1 \in FailedCalls({"auth_test"}) =>
          Len(calls) = 1 /\ rows = <<>> /\ epc = "raised" /\ raised = calls[1].res.exc
    /\ \A i \in FailedCalls({"get_channel_member_ids", "build_user_email_map",
                             "compute_channel_stats_from_history"}) :
          i = Len(calls) /\ rows = <<>> /\ epc = "raised" /\ raised = calls[i].res.exc

\* The history scan met a transport error after auth.test, the membership
\* fetch and the directory build had succeeded.
C19_Witness ==
    /\ epc = "raised"
    /\ raised = "ConnectionError"
    /\ Last(calls).fn = "compute_channel_stats_from_history"
    /\ user_map # EmptyMap
    /\ member_ids # <<>>

\* The role checks of the log, in order.
RoleChecks == SelectSeq(calls, LAMBDA c : c.fn = "get_user_role")

\* C20: there are as many role checks as rows: the k-th role check is the one
\* of the k-th row's identity and gives that row's role; an identity that is
\* filtered out or skipped gets no role check.
C20_OneRoleCheckPerRow ==
    /\ Len(RoleChecks) = Len(rows)
    /\ \A k \in 1..Len(rows) :
          /\ RoleChecks[k].arg = rows[k].user_id
          /\ rows[k].role = get_user_role(rows[k].user_id, channel_creator_id, RoleChecks[k].res)

\* The export returned rows, one candidate was filtered out and
\* the fallback lookup of another failed.
C20_Witness ==
    /\ epc = "returned"
    /\ Len(rows) >= 1
    /\ \E uid \in Candidates : RowsOf(uid) = {} /\ \E info \in Resolved(uid) : ~Passes(info)
    /\ \E i \in FailedCalls({"fetch_user_info"}) : RowsOf(calls[i].arg) = {}

\* C21: without scan_history no history request is made, both history maps
\* stay empty, the candidates are exactly the members, and every row has
\* message_count "0" and joined_at ""; with members [U1, U2], U1 in the
\* directory and U2 absent from it with a failing fallback lookup, the export
\* returns exactly one row, the one of U1.
C21_Original ==
    ~scan_history =>
        /\ \A i \in 1..Len(calls) : calls[i].fn # "compute_channel_stats_from_history"
        /\ msg_counts = EmptyMap /\ join_ts = EmptyMap
        /\ epc \in {"pass1", "pass2", "returned"} => ordered_ids = member_ids
        /\ \A i \in 1..Len(rows) : rows[i].message_count = "0" /\ rows[i].joined_at = ""
        /\ ( /\ member_ids = <<"U1", "U2">>
             /\ user_map = AddUsers(EmptyMap, <<UserAnn>>)
             /\ \E i \in FailedCalls({"fetch_user_info"}) : calls[i].arg = "U2" )
           => /\ epc = "returned"
              /\ Len(rows) = 1
              /\ rows[1].user_id = "U1"

(***************************************************************************)
(* The /export-channel-metrics handler (slack_slash_app.py)                *)
(***************************************************************************)

ChannelNames == {<<>>, <<"directmessage">>, <<"DirectMessage">>, <<"general">>}
CommandChannels == {<<>>, <<"D1">>, <<"C1">>}
CommandUsers == {<<"U1">>, <<"U2">>}
Texts == {<<>>, <<"">>, <<"  ">>, <<"C9">>, <<"<#C9|general>">>, <<"D1">>}

\* str.lower, str.strip and str.startswith("D") on the texts above.
Lower(t) == CASE t = "DirectMessage" -> "directmessage" [] OTHER -> t
Strip(t) == CASE t = "  " -> "" [] OTHER -> t
StartsWithD(t) == t \in {"D1", "DirectMessage"}

\* clean_channel_id on the texts above: <>, # and |name are dropped.
clean_channel_id(t) == CASE t = "<#C9|general>" -> "C9" [] OTHER -> Strip(t)

_is_dm_command_Always(cmd) == TRUE

\* channel_name is "directmessage", or channel_id starts with "D".
_is_dm_command(cmd) ==
    IF Lower(OrEmpty(cmd.channel_name)) = "directmessage" THEN TRUE
    ELSE StartsWithD(Strip(OrEmpty(cmd.channel_id)))

\* What client.users_info may answer to the admin check.
AdminLookups ==
    {Info("return", "", <<UserAnn>>, f) :
        f \in {{}, {"is_admin"}, {"is_owner"}, {"is_primary_owner"}, {"is_restricted"}}}
    \cup {Info("return", "", <<>>, {}), Failed("SlackApiError"), Failed("ConnectionError")}

\* bool(user.get("is_admin") or user.get("is_owner") or user.get("is_primary_owner"))
_is_admin_user(info) == info.user # <<>> /\ IsAdmin(info)

\* _parse_channel_arg and _resolve_target_channel
_resolve_target_channel(command_channel_id, text) ==
    IF Strip(OrEmpty(text)) = "" THEN OrEmpty(command_channel_id)
    ELSE clean_channel_id(Strip(OrEmpty(text)))

UploadChannel_Target(cmd, target) == <<target>>

\* files_upload_v2(channel=command.get("channel_id"), ...)
UploadChannel(cmd, target) == cmd.channel_id

\* One thing the handler did: ack, respond (arg: which message), a request of
\* the client, the export, the encoding.
Ev(kind, arg, res) == [kind |-> kind, arg |-> arg, res |-> res]
Respond(msg) == Ev("respond", <<msg>>, Ok)

SlashInit ==
    /\ spc = "ack"
    /\ command \in {Command(n, c, u, t) :
                      n \in ChannelNames, c \in CommandChannels, u \in CommandUsers, t \in Texts}
    /\ channel_id = ""
    /\ events = <<>>
    /\ cpc = "idle"
    /\ csv_rows = <<>>
    /\ csv = <<>>

\* Line 113
Ack ==
    /\ spc = "ack"
    /\ events' = Append(events, Ev("ack", <<>>, Ok))
    /\ spc' = "dm"
    /\ UNCHANGED <<command, channel_id>>

\* Lines 116-122
CheckDm ==
    /\ spc = "dm"
    /\ IF _is_dm_command(command)
       THEN spc' = "admin" /\ UNCHANGED events
       ELSE spc' = "done" /\ events' = Append(events, Respond("dm_only"))
    /\ UNCHANGED <<command, channel_id>>

\* Lines 125-131
CheckAdmin ==
    /\ spc = "admin"
    /\ \E info \in AdminLookups :
          LET asked == Append(events, Ev("users_info", command.user_id, info)) IN
          IF info.kind = "raise"
          THEN spc' = "done" /\ events' = Append(asked, Respond("cannot_verify"))
          ELSE IF ~_is_admin_user(info)
          THEN spc' = "done" /\ events' = Append(asked, Respond("restricted"))
          ELSE spc' = "parse" /\ events' = asked
    /\ UNCHANGED <<command, channel_id>>

\* Lines 133-144
ParseArg ==
    /\ spc = "parse"
    /\ IF Strip(OrEmpty(command.text)) = ""
       THEN /\ spc' = "done"
            /\ events' = Append(events, Respond("usage"))
            /\ UNCHANGED channel_id
       ELSE /\ channel_id' = _resolve_target_channel(command.channel_id, command.text)
            /\ events' = Append(events, Respond("working"))
            /\ spc' = "export"
    /\ UNCHANGED command

\* Lines 146-166: the export and the encoding, and the two except clauses.
RunExport ==
    /\ spc = "export"
    /\ \/ /\ events' = events \o <<Ev("export", <<channel_id>>, Ok), Ev("encode", <<>>, Ok)>>
          /\ spc' = "upload"
       \/ \E x \in HardFailures :
             /\ events' = events \o <<Ev("export", <<channel_id>>, Failed(x)),
                                      Respond(IF x = "SlackApiError" THEN "export_failed"
                                              ELSE "unexpected_error")>>
             /\ spc' = "done"
       \/ /\ events' = events \o <<Ev("export", <<channel_id>>, Ok),
                                   Ev("encode", <<>>, Failed("UnicodeEncodeError")),
                                   Respond("unexpected_error")>>
          /\ spc' = "done"
    /\ UNCHANGED <<command, channel_id>>

\* Lines 168-192: the best-effort channel name, the upload, the last response.
Upload ==
    /\ spc = "upload"
    /\ \E name \in {Ok, Failed("SlackApiError")}, up \in {Ok, Failed("SlackApiError")} :
          events' = events \o <<Ev("conversations_info", <<channel_id>>, name),
                                Ev("files_upload_v2", UploadChannel(command, channel_id), up),
                                Respond(IF up.kind = "raise" THEN "upload_failed" ELSE "done")>>
    /\ spc' = "done"
    /\ UNCHANGED <<command, channel_id>>

InitSlash == ReqIdle /\ PageIdle /\ HistIdle /\ RoleIdle /\ ExportIdle /\ SlashInit

slashFrame == <<reqVars, pageVars, histVars, roleVars, exportVars, cpc, csv_rows, csv>>

NextSlash ==
    \/ Ack /\ UNCHANGED slashFrame
    \/ CheckDm /\ UNCHANGED slashFrame
    \/ CheckAdmin /\ UNCHANGED slashFrame
    \/ ParseArg /\ UNCHANGED slashFrame
    \/ RunExport /\ UNCHANGED slashFrame
    \/ Upload /\ UNCHANGED slashFrame

SpecSlash == InitSlash /\ [][NextSlash]_vars

\* The events of a kind, by index.
EventsOf(kind) == {i \in 1..Len(events) : events[i].kind = kind}
Responded(msg) == \E i \in EventsOf("respond") : events[i].arg = <<msg>>

C23_UploadAfterExport ==
    /\ \A u \in EventsOf("files_upload_v2") :
          /\ \E e \in EventsOf("export"), c \in EventsOf("encode") :
                e < c /\ c < u /\ events[e].res.kind = "return" /\ events[c].res.kind = "return"
          /\ events[u].arg = command.channel_id
          /\ <<channel_id>> # command.channel_id => events[u].arg # <<channel_id>>
    /\ \A r \in EventsOf("respond") :
          events[r].arg = <<"done">> =>
             \E u \in EventsOf("files_upload_v2") : u < r /\ events[u].res.kind = "return"
    /\ \A f \in EventsOf("export") \cup EventsOf("encode") \cup EventsOf("files_upload_v2") :
          events[f].res.kind = "raise" =>
             /\ spc = "done"
             /\ \A u \in EventsOf("files_upload_v2") : u <= f
             /\ Last(events).kind = "respond"
             /\ Last(events).arg \in {<<"export_failed">>, <<"unexpected_error">>, <<"upload_failed">>}
             /\ ~Responded("done")

\* The CSV of channel C9 was uploaded to D1, where the command was run, and
\* the handler answered "Done".
C23_Witness ==
    /\ spc = "done"
    /\ channel_id = "C9"
    /\ command.channel_id = <<"D1">>
    /\ \E u \in EventsOf("files_upload_v2") : events[u].arg = <<"D1">> /\ events[u].res.kind = "return"
    /\ Responded("done")

(***************************************************************************)
(* rows_to_csv_bytes                                                       *)
(***************************************************************************)

MaxRows == 2

fieldnames ==
    <<"user_id", "email", "display_name", "real_name", "role", "message_count", "joined_at">>

\* A row dict: a function from the keys it has to their values (<<>> is None).
Dict(keys, val) == [k \in keys |-> val[k]]

FullValues ==
    [k \in Elems(fieldnames) \cup {"extra"} |->
        CASE k = "user_id" -> <<"U1">> [] k = "email" -> <<"a@x.com">>
          [] k = "display_name" -> <<"ann">> [] k = "real_name" -> <<"P, Ann">>
          [] k = "role" -> <<"Member">> [] k = "message_count" -> <<"3">>
          [] k = "joined_at" -> <<"100">> [] k = "extra" -> <<"x">>]

SparseValues ==
    [k \in Elems(fieldnames) |->
        CASE k = "user_id" -> <<"U2">> [] k = "role" -> <<"Member">>
          [] k = "message_count" -> <<"0">> [] k = "real_name" -> <<>>
          [] OTHER -> <<"">>]

\* The row dicts the function may be handed: complete, with a key too many,
\* with keys missing, with a None value, empty.
CsvRows ==
    {Dict(Elems(fieldnames), FullValues),
     Dict(Elems(fieldnames) \cup {"extra"}, FullValues),
     Dict(Elems(fieldnames) \ {"email", "joined_at"}, FullValues),
     Dict(Elems(fieldnames), SparseValues),
     Dict({}, FullValues)}

RECURSIVE SeqsUpTo(_, _)
SeqsUpTo(set, n) ==
    IF n = 0 THEN {<<>>}
    ELSE SeqsUpTo(set, n - 1) \cup
         {Append(q, x) : q \in {r \in SeqsUpTo(set, n - 1) : Len(r) = n - 1}, x \in set}

\* The csv module quotes a field that holds the delimiter.
Quote(t) == CASE t = "P, Ann" -> "\"P, Ann\"" [] OTHER -> t

CsvField_Placeholder(row, k) ==
    IF k \notin DOMAIN row \/ row[k] = <<>> THEN "None" ELSE Quote(row[k][1])

\* Line 402: row.get(k, ""), written by the csv writer (None is written as "").
CsvField(row, k) ==
    LET v == IF k \in DOMAIN row THEN row[k] ELSE <<"">> IN
    IF v = <<>> THEN "" ELSE Quote(v[1])

CsvRecord(row) == [i \in 1..Len(fieldnames) |-> CsvField(row, fieldnames[i])]

CsvInit ==
    /\ cpc = "header"
    /\ csv_rows \in SeqsUpTo(CsvRows, MaxRows)
    /\ csv = <<>>
    /\ spc = "idle"
    /\ command = Command(<<>>, <<>>, <<>>, <<>>)
    /\ channel_id = ""
    /\ events = <<>>

\* Line 400: writer.writeheader()
WriteHeader ==
    /\ cpc = "header"
    /\ csv' = <<fieldnames>>
    /\ cpc' = "rows"
    /\ UNCHANGED csv_rows

\* Lines 401-402: one iteration of `for row in rows`
WriteRow ==
    /\ cpc = "rows"
    /\ Len(csv) - 1 < Len(csv_rows)
    /\ csv' = Append(csv, CsvRecord(csv_rows[Len(csv)]))
    /\ UNCHANGED <<cpc, csv_rows>>

\* Line 403
CsvReturn ==
    /\ cpc = "rows"
    /\ Len(csv) - 1 = Len(csv_rows)
    /\ cpc' = "returned"
    /\ UNCHANGED <<csv, csv_rows>>

InitCsv == ReqIdle /\ PageIdle /\ HistIdle /\ RoleIdle /\ ExportIdle /\ CsvInit

csvFrame == <<reqVars, pageVars, histVars, roleVars, exportVars, spc, command, channel_id, events>>

NextCsv ==
    \/ WriteHeader /\ UNCHANGED csvFrame
    \/ WriteRow /\ UNCHANGED csvFrame
    \/ CsvReturn /\ UNCHANGED csvFrame

SpecCsv == InitCsv /\ [][NextCsv]_vars

\* A written field read back.
Unquote(t) == CASE t = "\"P, Ann\"" -> "P, Ann" [] OTHER -> t

\* The value of a key of a row: "" when the key is missing or holds None.
ValueOrEmpty(row, k) == IF k \in DOMAIN row /\ row[k] # <<>> THEN row[k][1] ELSE ""

\* The records after `header`: one per input row, in input order, seven
\* fields each, a missing value as an empty field.
RecordsFollow(header) ==
    cpc = "returned" =>
        /\ Len(csv) = Len(csv_rows) + 1
        /\ csv[1] = header
        /\ \A i \in 1..Len(csv_rows) :
              /\ Len(csv[i + 1]) = 7
              /\ \A k \in 1..7 : Unquote(csv[i + 1][k]) = ValueOrEmpty(csv_rows[i], header[k])

\* C24 as stated: the header row comes first, then one record per input row
\* in input order, each with the seven columns id, email, display_name,
\* real_name, role, message_count, joined_at, a missing value being empty.
C24_Original ==
    RecordsFollow(<<"id", "email", "display_name", "real_name", "role", "message_count",
                    "joined_at">>)

\* C24 amended: the same, the first column being user_id.
C24_Amended ==
    RecordsFollow(<<"user_id", "email", "display_name", "real_name", "role", "message_count",
                    "joined_at">>)

\* Two rows were encoded, the second without an email key.
C24_Witness ==
    /\ cpc = "returned"
    /\ Len(csv_rows) = 2
    /\ "email" \notin DOMAIN csv_rows[2]
    /\ "real_name" \in DOMAIN csv_rows[1] /\ csv_rows[1]["real_name"] = <<>>
    /\ csv[3][2] = ""

\* C25: every sleep of _request_json is followed by a further request: when
\* the call has ended, each sleep was taken after a request that was not the
\* last one, whether that request was answered by a 429 or by a retryable
\* in-body error.
C25_Original ==
    pc = "done" => \A i \in 1..Len(sleeps) : sleeps[i].nsent < Len(sent)

====
